---- MODULE Spec2Model ----
(***************************************************************************)
(* ColorHistObjectClassifier (src/ColorHistObjectClassifier.py): a colour  *)
(* histogram appearance model and particle likelihood.                     *)
(*                                                                         *)
(* Numbers.  A float vector is modelled by its value: either NaN (the      *)
(* result of 0/0, which then poisons every operation it enters) or a       *)
(* vector of non-negative rationals num[i]/den, kept in lowest terms so    *)
(* that equal values are equal records.  Square roots are taken in fixed   *)
(* point (unit 1/Scale); a distance d is carried as its square, in units   *)
(* of 1/One, and a weight exp(-d^2/(2 sigma^2)) by its exponent.           *)
(* Positions (region edges, particle centres) are in half pixels, so that  *)
(* a centre and an odd width give the half-integer edge that int()         *)
(* truncates.                                                              *)
(***************************************************************************)
EXTENDS Integers, Sequences, FiniteSets, TLC

\* ------------------------------------------------------------ bounds
MaxParticles == 2
MaxDen == 40

\* ------------------------------------------------------------ constants
ThreshH == 25
ThreshS == 51
White == 255
SigmaInv == 10
Scale == 1024
One == Scale * Scale

None == <<>>

\* ------------------------------------------------------------ arithmetic
Abs(n) == IF n < 0 THEN -n ELSE n

RECURSIVE GCD(_, _)
GCD(a, b) == IF b = 0 THEN a ELSE GCD(b, a % b)

RECURSIVE SumSeq(_)
SumSeq(s) == IF s = <<>> THEN 0 ELSE Head(s) + SumSeq(Tail(s))

RECURSIVE GCDSeq(_)
GCDSeq(s) == IF s = <<>> THEN 0 ELSE GCD(Head(s), GCDSeq(Tail(s)))

\* floor of the square root, by bisection on [lo, hi)
RECURSIVE ISqrtIn(_, _, _)
ISqrtIn(n, lo, hi) ==
    IF hi - lo <= 1 THEN lo
    ELSE LET mid == (lo + hi) \div 2
         IN IF mid * mid <= n THEN ISqrtIn(n, mid, hi) ELSE ISqrtIn(n, lo, mid)

ISqrt(n) == ISqrtIn(n, 0, 2 * Scale + 1)

\* int(v) of a value given in half units: truncation toward zero
IntTrunc(v2) == IF v2 >= 0 THEN v2 \div 2 ELSE -((-v2) \div 2)

\* ------------------------------------------------------------ float vectors
Zeros(n) == [i \in 1..n |-> 0]

NaNVec(n) == [nan |-> TRUE, num |-> Zeros(n), den |-> 1]

\* the vector num/den in lowest terms (den > 0)
Vec(num, den) ==
    LET g == GCD(GCDSeq(num), den)
    IN [nan |-> FALSE, num |-> [i \in 1..Len(num) |-> num[i] \div g], den |-> den \div g]

ZeroVec(n) == Vec(Zeros(n), 1)

IsZeroVec(h) == ~h.nan /\ \A i \in 1..Len(h.num) : h.num[i] = 0

\* np.sum(h) = 1
SumsToOne(h) == ~h.nan /\ SumSeq(h.num) = h.den

\* ------------------------------------------------------------ regions
\* BoundingBox: x, y in half pixels, width and height in pixels
top(bb) == bb.y
bottom(bb) == bb.y + 2 * bb.height
left(bb) == bb.x
right(bb) == bb.x + 2 * bb.width
centered_on(bb, cx, cy) ==
    [x |-> cx - bb.width, y |-> cy - bb.height, width |-> bb.width, height |-> bb.height]
centroid(bb) == <<bb.x + bb.width, bb.y + bb.height>>

\* ------------------------------------------------------------ images
Height(img) == Len(img)
Width(img) == Len(img[1])

\* numpy a[lo:hi] on an axis of length n: the indices (1-based) it selects
SliceIdx(lo, hi, n) ==
    LET norm(k) == IF k < 0 THEN (IF k + n < 0 THEN 0 ELSE k + n)
                   ELSE (IF k > n THEN n ELSE k)
        a == norm(lo)
        b == norm(hi)
    IN IF a < b THEN [i \in 1..(b - a) |-> a + i] ELSE <<>>

\* img[int(top):int(bottom), int(left):int(right)] as the selected rows and columns
CropRows(img, bb) == SliceIdx(IntTrunc(top(bb)), IntTrunc(bottom(bb)), Height(img))
CropCols(img, bb) == SliceIdx(IntTrunc(left(bb)), IntTrunc(right(bb)), Width(img))

Crop(img, bb) ==
    LET rs == CropRows(img, bb)
        cs == CropCols(img, bb)
    IN [i \in 1..Len(rs) |-> [j \in 1..Len(cs) |-> img[rs[i]][cs[j]]]]

\* a crop with no row or no column holds no pixel
IsEmpty(obj_image) == Len(obj_image) = 0 \/ Len(obj_image[1]) = 0

Positions(obj_image) ==
    IF IsEmpty(obj_image) THEN {}
    ELSE (1..Len(obj_image)) \X (1..Len(obj_image[1]))

\* ------------------------------------------------------------ OpenCV
\* cv2.split: the channel planes of a 3-channel image, none for an empty one
split(obj_image) ==
    IF IsEmpty(obj_image) THEN <<>>
    ELSE [c \in 1..3 |->
            [i \in 1..Len(obj_image) |->
                [j \in 1..Len(obj_image[1]) |-> obj_image[i][j][c]]]]

\* cv2.threshold(plane, thresh, 255, THRESH_BINARY)[1]
threshold(plane, thresh) ==
    [i \in 1..Len(plane) |-> [j \in 1..Len(plane[1]) |->
        IF plane[i][j] > thresh THEN White ELSE 0]]

\* on the values 0 and 255 that the thresholds produce
bitwise_and(m1, m2) ==
    [i \in 1..Len(m1) |-> [j \in 1..Len(m1[1]) |->
        IF m1[i][j] = White /\ m2[i][j] = White THEN White ELSE 0]]

bitwise_xor(m1, m2) ==
    [i \in 1..Len(m1) |-> [j \in 1..Len(m1[1]) |->
        IF m1[i][j] = m2[i][j] THEN 0 ELSE White]]

ones_like_times_255(m) == [i \in 1..Len(m) |-> [j \in 1..Len(m[1]) |-> White]]

RECURSIVE Product(_)
Product(s) == IF s = <<>> THEN 1 ELSE Head(s) * Product(Tail(s))

\* the bin of value v on a dimension of n bins over [lo, hi); 0 when outside
BinOf(v, n, lo, hi) ==
    IF v >= lo /\ v < hi THEN ((v - lo) * n) \div (hi - lo) + 1 ELSE 0

\* the flat (row-major) bin of a pixel over the dimensions chans; 0 when the
\* pixel falls outside the range of some dimension
RECURSIVE FlatBin(_, _, _, _)
FlatBin(px, chans, bins, ranges) ==
    IF chans = <<>> THEN 1
    ELSE LET b == BinOf(px[chans[1] + 1], bins[1], ranges[1], ranges[2])
             rest == FlatBin(px, Tail(chans), Tail(bins), Tail(Tail(ranges)))
         IN IF b = 0 \/ rest = 0 THEN 0
            ELSE (b - 1) * Product(Tail(bins)) + rest

\* cv2.calcHist([image], chans, mask, bins, ranges).flatten(): the counts
calcHist(image, chans, mask, bins, ranges) ==
    [k \in 1..Product(bins) |->
        Cardinality({p \in Positions(image) :
            /\ mask[p[1]][p[2]] # 0
            /\ FlatBin(image[p[1]][p[2]], chans, bins, ranges) = k})]

\* h / np.sum(h) on a finite vector of counts: 0/0 is NaN in every bin
DivideBySum(counts) ==
    IF SumSeq(counts) = 0 THEN NaNVec(Len(counts))
    ELSE Vec(counts, SumSeq(counts))

\* ------------------------------------------------------------ the classifier
HistLen(num_bins) == num_bins[1] * num_bins[2] + num_bins[3]

\* the body of `if len(splitted_img) == 3`
split_histogram(obj_image, splitted_img, channels, num_bins, intervals) ==
    LET maskH == threshold(splitted_img[1], ThreshH)
        maskS == threshold(splitted_img[2], ThreshS)
        maskHS == bitwise_and(maskH, maskS)
        white_mask == ones_like_times_255(maskH)
        maskV == bitwise_xor(maskHS, white_mask)
        hs_hist == calcHist(obj_image, SubSeq(channels, 1, 2), maskHS,
                            SubSeq(num_bins, 1, 2), SubSeq(intervals, 1, 4))
        v_hist == calcHist(obj_image, SubSeq(channels, 3, 3), maskV,
                           SubSeq(num_bins, 3, 3), SubSeq(intervals, 5, 6))
    IN DivideBySum(hs_hist \o v_hist)

\* mutant: the normalization moved out of the `if`, so that the zero vector of
\* an empty crop is divided by its sum too
compute_object_histogram_normalize_always(img, objectBB, channels, mask, num_bins, intervals) ==
    LET obj_hist == ZeroVec(HistLen(num_bins))
        obj_image == Crop(img, objectBB)
        splitted_img == split(obj_image)
    IN IF Len(splitted_img) = 3
       THEN split_histogram(obj_image, splitted_img, channels, num_bins, intervals)
       ELSE DivideBySum(obj_hist.num)

\* the parameter mask is never read
compute_object_histogram(img, objectBB, channels, mask, num_bins, intervals) ==
    LET obj_hist == ZeroVec(HistLen(num_bins))
        obj_image == Crop(img, objectBB)
        splitted_img == split(obj_image)
    IN IF Len(splitted_img) = 3
       THEN split_histogram(obj_image, splitted_img, channels, num_bins, intervals)
       ELSE obj_hist

\* v / np.sum(v) for the reference: 0/0 is NaN
NormalizeReference(h) ==
    IF h.nan \/ SumSeq(h.num) = 0 THEN NaNVec(Len(h.num))
    ELSE Vec(h.num, SumSeq(h.num))

\* sum_hist[sum_hist == 0] = 1.0; all_particle_hists / sum_hist.
\* A NaN sum is not equal to 0 and stays NaN.
NormalizeParticle(h) ==
    IF h.nan THEN h
    ELSE IF SumSeq(h.num) = 0 THEN Vec(h.num, h.den)
    ELSE Vec(h.num, SumSeq(h.num))

\* np.sqrt of bin i of a normalized vector, in units of 1/Scale
SqrtBin(h, i) == ISqrt((h.num[i] * One) \div h.den)

\* np.sum(np.power(np.sqrt(ref) - np.sqrt(cand), 2)), in units of 1/One
RECURSIVE SumSqDiff(_, _, _)
SumSqDiff(ref, cand, i) ==
    IF i = 0 THEN 0
    ELSE LET diff == SqrtBin(ref, i) - SqrtBin(cand, i)
         IN diff * diff + SumSqDiff(ref, cand, i - 1)

NaNNum == [nan |-> TRUE, zero |-> FALSE, v |-> 0]

\* mutant: the factor 1/sqrt 2 left out
dist_unscaled(norm_color_hist, norm_particle_hist) ==
    IF norm_color_hist.nan \/ norm_particle_hist.nan THEN NaNNum
    ELSE [nan |-> FALSE, zero |-> FALSE,
          v |-> SumSqDiff(norm_color_hist, norm_particle_hist,
                          Len(norm_color_hist.num))]

\* dist = (1/sqrt 2) * sqrt(sum), carried as dist^2 = sum / 2 in units of 1/One
dist(norm_color_hist, norm_particle_hist) ==
    IF norm_color_hist.nan \/ norm_particle_hist.nan THEN NaNNum
    ELSE [nan |-> FALSE, zero |-> FALSE,
          v |-> SumSqDiff(norm_color_hist, norm_particle_hist,
                          Len(norm_color_hist.num)) \div 2]

\* np.exp(-dist^2 / (2 sigma^2)) with sigma = 1/SigmaInv, carried as the
\* exponent dist^2 / (2 sigma^2) in units of 1/One: the weight is 1 exactly
\* when v = 0 and lies in (0, 1] whenever v >= 0
gaussian(d) ==
    IF d.nan THEN NaNNum
    ELSE [nan |-> FALSE, zero |-> FALSE, v |-> (d.v * SigmaInv * SigmaInv) \div 2]

\* the centre of a particle lies in the image (positions in half pixels)
valid_mask(state, hsv_img) ==
    LET positive_x == state[1] >= 0
        small_x == state[1] < 2 * Width(hsv_img)
        positive_y == state[2] >= 0
        small_y == state[2] < 2 * Height(hsv_img)
    IN positive_x /\ small_x /\ positive_y /\ small_y

\* weight * valid: x * True = x, x * False = 0 for a number x, NaN for NaN
times_valid(w, valid) ==
    IF valid \/ w.nan THEN w ELSE [nan |-> FALSE, zero |-> TRUE, v |-> 0]

particle_hists(self_bb, params, particles, hsv_img, mask) ==
    [i \in 1..Len(particles) |->
        compute_object_histogram(
            hsv_img, centered_on(self_bb, particles[i][1], particles[i][2]),
            params.channels, mask, params.num_bins, params.intervals)]

particle_dists(self_hist, all_particle_hists) ==
    LET norm_color_hist == NormalizeReference(self_hist)
    IN [i \in 1..Len(all_particle_hists) |->
          dist(norm_color_hist, NormalizeParticle(all_particle_hists[i]))]

\* all_weights, together with the locals all_particle_hists and dist it was
\* computed from
particle_weight(self_bb, self_hist, params, particles, hsv_img, mask) ==
    LET all_particle_hists == particle_hists(self_bb, params, particles, hsv_img, mask)
        dists == particle_dists(self_hist, all_particle_hists)
    IN [all_particle_hists |-> all_particle_hists,
        dist |-> dists,
        all_weights |-> [i \in 1..Len(dists) |->
            times_valid(gaussian(dists[i]), valid_mask(particles[i], hsv_img))]]

\* (1 - f) * old + f * new with f = fac[1]/fac[2]; NaN in either operand
\* gives NaN, also under a factor 0
blend(old, new, fac) ==
    IF old.nan \/ new.nan THEN NaNVec(Len(old.num))
    ELSE Vec([i \in 1..Len(old.num) |->
                 (fac[2] - fac[1]) * old.num[i] * new.den
                 + fac[1] * new.num[i] * old.den],
             fac[2] * old.den * new.den)

\* ------------------------------------------------------------ inputs
\* HSV pixels: two achromatic (low hue or low saturation), two chromatic
Gray == <<0, 0, 128>>
Dark == <<100, 10, 20>>
Red == <<30, 200, 100>>
Blue == <<120, 200, 100>>

ImgA == << <<Gray, Red,  Red,  Blue>>,
           <<Gray, Red,  Blue, Blue>>,
           <<Dark, Dark, Blue, Gray>> >>

ImgB == << <<Gray, Gray, Gray, Red>>,
           <<Gray, Gray, Gray, Blue>>,
           <<Blue, Blue, Dark, Gray>> >>

Images == {ImgA, ImgB}

\* an external mask aligned to the image: it rules out the middle columns
MaskA == << <<255, 0, 0, 255>>,
            <<255, 0, 255, 255>>,
            <<255, 255, 0, 255>> >>

Masks == {None, MaskA}

\* regions: a 2x2 box, a box of width 0, a 1x1 box with a fractional centre
BBMain == [x |-> 2, y |-> 0, width |-> 2, height |-> 2]
BBThin == [x |-> 2, y |-> 0, width |-> 0, height |-> 2]
BBOdd == [x |-> 4, y |-> 2, width |-> 1, height |-> 1]

BBs == {BBMain, BBThin, BBOdd}

\* a region scored by score_object that lies wholly right of the image
BBFar == [x |-> 10, y |-> 0, width |-> 2, height |-> 2]

\* histogram parameters: every value binned; value bins that leave Gray out;
\* hue bins that leave Blue out, with another layout
ParamsFull == [channels |-> <<0, 1, 2>>, num_bins |-> <<2, 2, 2>>,
               intervals |-> <<0, 180, 0, 256, 0, 256>>]
ParamsDim == [channels |-> <<0, 1, 2>>, num_bins |-> <<2, 2, 2>>,
              intervals |-> <<0, 180, 0, 256, 0, 64>>]
ParamsWarm == [channels |-> <<0, 1, 2>>, num_bins |-> <<2, 1, 3>>,
               intervals |-> <<0, 100, 0, 256, 0, 256>>]

ParamSets == {ParamsFull, ParamsDim, ParamsWarm}

\* particle centres in half pixels: the centre of BBMain; on the left edge
\* (the region wraps); left of the image; below it
Points == {<<4, 2>>, <<0, 2>>, <<-2, 2>>, <<4, 6>>}

RECURSIVE SeqsUpTo(_, _)
SeqsUpTo(S, n) ==
    IF n = 0 THEN {<<>>}
    ELSE LET shorter == SeqsUpTo(S, n - 1)
         IN shorter \cup {Append(q, x) : q \in shorter, x \in S}

Batches == SeqsUpTo(Points, MaxParticles) \ {<<>>}

\* update factors as fractions: 0, the default 0.1, and 1
Factors == {<<0, 1>>, <<1, 10>>, <<1, 1>>}

\* ------------------------------------------------------------ state
VARIABLES bb, obj_img, color_hist_params, color_hist, init_img, pc, ret

vars == <<bb, obj_img, color_hist_params, color_hist, init_img, pc, ret>>

NoRet == [op |-> "none"]

\* histograms the tracker hands to the updater: those it builds for a region
\* of a frame with the classifier's parameters, and an unnormalized vector
NewHistograms ==
    {compute_object_histogram(img, centered_on(bb, p[1], p[2]),
                              color_hist_params.channels, None,
                              color_hist_params.num_bins,
                              color_hist_params.intervals) :
        img \in Images, p \in Points}
    \cup {Vec([i \in 1..HistLen(color_hist_params.num_bins) |->
                   IF i = 1 THEN 2 ELSE 0], 1)}

\* __init__
Init ==
    \E hsv_img \in Images, b \in BBs, p \in ParamSets, hist_mask \in {None} :
        /\ bb = b
        /\ obj_img = Crop(hsv_img, b)
        /\ color_hist_params = [channels |-> p.channels, mask |-> hist_mask,
                                num_bins |-> p.num_bins, intervals |-> p.intervals]
        /\ color_hist = compute_object_histogram(hsv_img, b, p.channels, hist_mask,
                                                 p.num_bins, p.intervals)
        /\ init_img = hsv_img
        /\ pc = "idle"
        /\ ret = NoRet

Scored(op, particles, hsv_img, mask) ==
    LET out == particle_weight(bb, color_hist, color_hist_params,
                               particles, hsv_img, mask)
    IN [op |-> op, particles |-> particles, img |-> hsv_img, mask |-> mask,
        hists |-> out.all_particle_hists, dists |-> out.dist,
        weights |-> out.all_weights]

\* mutant: the reference normalized in place (self._color_hist /= its sum)
ParticleWeightInPlace ==
    /\ pc = "idle"
    /\ \E particles \in Batches, hsv_img \in Images, mask \in Masks :
          ret' = Scored("particle_weight", particles, hsv_img, mask)
    /\ pc' = "returned"
    /\ color_hist' = NormalizeReference(color_hist)
    /\ UNCHANGED <<bb, obj_img, color_hist_params, init_img>>

ParticleWeight ==
    /\ pc = "idle"
    /\ \E particles \in Batches, hsv_img \in Images, mask \in Masks :
          ret' = Scored("particle_weight", particles, hsv_img, mask)
    /\ pc' = "returned"
    /\ UNCHANGED <<bb, obj_img, color_hist_params, color_hist, init_img>>

ScoreObject ==
    /\ pc = "idle"
    /\ \E b \in BBs \cup {BBFar}, hsv_img \in Images, mask \in Masks :
          ret' = Scored("score_object", <<centroid(b)>>, hsv_img, mask)
    /\ pc' = "returned"
    /\ UNCHANGED <<bb, obj_img, color_hist_params, color_hist, init_img>>

\* update_object_histogram; the stored fractions are kept within MaxDen
UpdateObjectHistogram ==
    /\ pc = "idle"
    /\ \E new_histogram \in NewHistograms, update_factor \in Factors :
          /\ blend(color_hist, new_histogram, update_factor).den <= MaxDen
          /\ color_hist' = blend(color_hist, new_histogram, update_factor)
          /\ ret' = [op |-> "update", old |-> color_hist, new |-> new_histogram,
                     f |-> update_factor]
    /\ pc' = "returned"
    /\ UNCHANGED <<bb, obj_img, color_hist_params, init_img>>

\* the caller takes the result and goes on
Resume ==
    /\ pc = "returned"
    /\ pc' = "idle"
    /\ ret' = NoRet
    /\ UNCHANGED <<bb, obj_img, color_hist_params, color_hist, init_img>>

Next == ParticleWeight \/ ScoreObject \/ UpdateObjectHistogram \/ Resume

Spec == Init /\ [][Next]_vars

\* ------------------------------------------------------------ properties
\* a scoring call has just returned
IsScore == pc = "returned" /\ ret.op \in {"particle_weight", "score_object"}

IsUpdate == pc = "returned" /\ ret.op = "update"

Scored_i == IF IsScore THEN 1..Len(ret.particles) ELSE {}

ParticleBB(i) == centered_on(bb, ret.particles[i][1], ret.particles[i][2])

Inside(i) == valid_mask(ret.particles[i], ret.img)

ZeroNum == [nan |-> FALSE, zero |-> TRUE, v |-> 0]
OneNum == [nan |-> FALSE, zero |-> FALSE, v |-> 0]

\* a weight that is a number of [0, 1]
InUnit(w) == ~w.nan /\ (w.zero \/ w.v >= 0)

\* the reference signature as the constructor computed it
Constructed ==
    compute_object_histogram(init_img, bb, color_hist_params.channels,
                             color_hist_params.mask, color_hist_params.num_bins,
                             color_hist_params.intervals)

\* C1: a particle whose centre is outside the image gets weight exactly 0,
\* whatever its histogram and whatever the reference signature.
C1_OutsideWeightZero ==
    \A i \in Scored_i : ~Inside(i) => ret.weights[i] = ZeroNum

\* C2: a scoring call returns one weight per particle, the i-th being the
\* weight of the i-th particle scored alone, each a number of [0, 1].
C2_WeightsOrderedInUnit ==
    IsScore =>
        /\ Len(ret.weights) = Len(ret.particles)
        /\ \A i \in Scored_i :
              /\ ret.weights[i] =
                    particle_weight(bb, color_hist, color_hist_params,
                                    <<ret.particles[i]>>, ret.img, ret.mask).all_weights[1]
              /\ InUnit(ret.weights[i])

\* C3: every histogram compute_object_histogram returns has non-negative bins
\* and sums to 1, or is the all-zero vector; it is never NaN.
C3_HistogramNormalizedOrZero ==
    \A i \in Scored_i :
        /\ ~ret.hists[i].nan
        /\ \A k \in 1..Len(ret.hists[i].num) : ret.hists[i].num[k] >= 0
        /\ SumsToOne(ret.hists[i]) \/ IsZeroVec(ret.hists[i])

\* C4: a region whose crop has no row or no column yields the all-zero
\* vector of length b0*b1 + b2, for the candidates of a scoring call and for
\* the initial region of the constructor.
C4_DegenerateCropIsZeroVector ==
    /\ \A i \in Scored_i :
          IsEmpty(Crop(ret.img, ParticleBB(i))) =>
              /\ ret.hists[i] = ZeroVec(HistLen(color_hist_params.num_bins))
              /\ Len(ret.hists[i].num) =
                    color_hist_params.num_bins[1] * color_hist_params.num_bins[2]
                    + color_hist_params.num_bins[3]
    /\ IsEmpty(obj_img) =>
          /\ IsZeroVec(Constructed)
          /\ Len(Constructed.num) =
                color_hist_params.num_bins[1] * color_hist_params.num_bins[2]
                + color_hist_params.num_bins[3]

\* C4 witness: a region of positive size centred inside the image whose crop
\* wraps to nothing, scored to the zero vector
C4_Witness ==
    \E i \in Scored_i :
        /\ bb.width > 0 /\ bb.height > 0 /\ Inside(i)
        /\ IsEmpty(Crop(ret.img, ParticleBB(i)))
        /\ IsZeroVec(ret.hists[i])

\* C5: an update with factor 0 leaves the reference signature equal to the
\* old one, and an update with factor 1 makes it equal to the new histogram.
C5_BlendEndpoints ==
    IsUpdate =>
        /\ ret.f = <<0, 1>> => color_hist = ret.old
        /\ ret.f = <<1, 1>> => color_hist = ret.new

\* C6: with the reference signature as constructed, a particle inside the
\* construction image whose translated region is the initial region, and so
\* selects the same crop, gets distance 0 and weight 1, with or without an
\* external mask.
C6_IdentityWeightOne ==
    (IsScore /\ color_hist = Constructed /\ ret.img = init_img) =>
        \A i \in Scored_i :
            (/\ Inside(i)
             /\ ParticleBB(i) = bb
             /\ Crop(ret.img, ParticleBB(i)) = obj_img)
            => /\ ret.dists[i] = OneNum
               /\ ret.weights[i] = OneNum

\* the pixels of a region's crop that fail the chroma test, that the external
\* mask allows, and that land in achromatic bin k
AllowedAchromatic(img, region, mask, k) ==
    LET rs == CropRows(img, region)
        cs == CropCols(img, region)
    IN {p \in (1..Len(rs)) \X (1..Len(cs)) :
          LET px == img[rs[p[1]]][cs[p[2]]]
          IN /\ ~(px[1] > ThreshH /\ px[2] > ThreshS)
             /\ mask[rs[p[1]]][cs[p[2]]] # 0
             /\ FlatBin(px, SubSeq(color_hist_params.channels, 3, 3),
                        SubSeq(color_hist_params.num_bins, 3, 3),
                        SubSeq(color_hist_params.intervals, 5, 6)) = k}

\* C7: under an external mask every achromatic bin that holds mass holds a
\* pixel the mask allows, and the chromatic bins are those computed without
\* the mask.
C7_MaskRestrictsAchromatic ==
    (IsScore /\ ret.mask # None) =>
        \A i \in Scored_i :
            LET nchroma == color_hist_params.num_bins[1] * color_hist_params.num_bins[2]
                unmasked == compute_object_histogram(
                                ret.img, ParticleBB(i), color_hist_params.channels,
                                None, color_hist_params.num_bins,
                                color_hist_params.intervals)
            IN ~ret.hists[i].nan =>
                 /\ \A k \in 1..color_hist_params.num_bins[3] :
                       ret.hists[i].num[nchroma + k] > 0 =>
                           AllowedAchromatic(ret.img, ParticleBB(i), ret.mask, k) # {}
                 /\ \A k \in 1..nchroma :
                       ret.hists[i].num[k] * unmasked.den
                           = unmasked.num[k] * ret.hists[i].den

\* the rounding that the fixed-point square roots leave in a squared distance:
\* at most 2 * Scale + 2 units of 1/One for each bin
Tol == HistLen(color_hist_params.num_bins) * (2 * Scale + 2)

Near(v, target) == Abs(v - target) <= Tol

\* two vectors with no bin in common
Disjoint(g, h) == \A k \in 1..Len(g.num) : g.num[k] = 0 \/ h.num[k] = 0

C9_ScoringLeavesReference ==
    [][/\ (pc = "idle" /\ ret'.op \in {"particle_weight", "score_object"})
            => (color_hist' = color_hist /\ bb' = bb /\ obj_img' = obj_img
                /\ color_hist_params' = color_hist_params)
       /\ color_hist' # color_hist => ret'.op = "update"]_vars

\* C9 witness: a scoring call has returned on a reference that does not sum
\* to 1, so that the scorer's normalization changed the values it read
C9_Witness ==
    /\ IsScore
    /\ ~color_hist.nan /\ SumSeq(color_hist.num) > 0 /\ ~SumsToOne(color_hist)
    /\ \E i \in Scored_i : InUnit(ret.weights[i]) /\ ~ret.weights[i].zero

\* the vector h times the positive integer c
Scaled(h, c) == IF h.nan THEN h ELSE Vec([k \in 1..Len(h.num) |-> c * h.num[k]], h.den)

\* C10: for every reference signature an update sequence reaches, the weights
\* are those of the reference scaled by a positive factor, and each is a
\* defined number, a reference of sum zero included.
C10_DefinedForEveryReference ==
    (IsScore /\ ~color_hist.nan) =>
        /\ ret.weights =
              particle_weight(bb, Scaled(color_hist, 3), color_hist_params,
                              ret.particles, ret.img, ret.mask).all_weights
        /\ \A i \in Scored_i : ~ret.hists[i].nan => ~ret.weights[i].nan

====
